---- MODULE Spec2Model ----
(***************************************************************************)
(* The pubsub subscription runtime of runtime/pubsub/subscription.go:      *)
(* the outstandingMessageTracker (Inc, Dec, ArmForShutdown, markDone), the *)
(* delivery callback NewSubscription installs on the backend, and          *)
(* Manager.Shutdown.  Every goroutine is a process with a program counter; *)
(* a step is one atomic operation of the code (an atomic add, a mutex      *)
(* acquisition, a critical section, a select).                             *)
(***************************************************************************)
EXTENDS Integers, FiniteSets, Sequences, TLC

\* Number of callback invocations the backend runs concurrently.
NumDeliveries == 2
\* close(t.done) executions counted; the counter saturates here.
MaxCloses == 2
\* Direct callers of the tracker stop calling Inc at this counter value.
MaxActive == 2
\* Failed delivery attempts the backend redelivers after.
MaxAttempt == 5

Deliveries == 1..NumDeliveries

\* Manager.outstanding is a pointer: nil or a tracker.
NilTracker == "nil"
TrackerRef == "tracker"

\* Error values the callback can return to the backend.
NoError == "nil"
ErrSubscriberPanicked == "internal: subscriber panicked"
ErrUnmarshal == "internal: failed to unmarshal message"
HandlerErrors == {"handler error"}
Errors == {NoError, ErrSubscriberPanicked, ErrUnmarshal} \cup HandlerErrors

\* errs.Internal is the code of the two errors the callback builds itself.
IsInternal(e) == e \in {ErrSubscriberPanicked, ErrUnmarshal}

\* What one run of the user handler does: return nil, return an error, panic.
HandlerPanic == "panic"
HandlerBehaviours == {NoError, HandlerPanic} \cup HandlerErrors

\* Values of the select in Shutdown.
NotObserved == "none"
DrainComplete == "drain"
DeadlineHit == "deadline"

\* Values of atDeadline: the force context has not fired, or what the
\* deliveries were doing at the moment it fired.
NotFired == "not fired"
HandlerExecuting == "a handler was executing, and had been since the call"
AllFinishedDoneOpen == "all deliveries had finished, done was open"
AllFinishedDoneClosed == "all deliveries had finished, done was closed"
OtherInFlight == "a delivery was in flight outside its handler"
NewDeliveryStarted == "a delivery had entered the callback after the call"

\* Value of activeAtClose while the done channel is open.
NotClosed == -1

\* subscriptionCfg.RetryPolicy is a pointer: nil or a policy.
NoPolicy == [nil |-> TRUE]

\* Defaults of the retry policy; durations are in seconds.
DefaultMaxRetries == 100
DefaultMinBackoff == 10
DefaultMaxBackoff == 600

\* Durations and retry counts a caller passes; 0 is the unset field.
Durations == {-1, 0, 1, 8, 900}
RetryCounts == {0, 3}
Policies == [MaxRetries : RetryCounts, MinBackoff : Durations, MaxBackoff : Durations]

\* The subscription configuration getSubscriptionConfig returns.
StandInConfig == "stand-in"
DeclaredConfig == "declared"
NotSubscribed == [called |-> FALSE]

\* The mutex t.mu: free, or held by a Dec call or by ArmForShutdown.
MuFree == <<"free", 0>>
HeldByDec(d) == <<"dec", d>>
HeldByArm == <<"arm", 0>>
HeldByCallerArm(d) == <<"callarm", d>>

VARIABLES
    outstanding,    \* Manager.outstanding: NilTracker or TrackerRef
    tracing,        \* tracingEnabled := trace.Enabled(mgr.cfg)
    ctxCancelled,   \* mgr.ctx has been cancelled
    active,         \* t.active
    armed,          \* t.armed
    onceDone,       \* t.closeOnce has run its function
    closes,         \* number of close(t.done) executed
    mu,             \* t.mu
    dpc,            \* per delivery: position in the callback
    ret,            \* per delivery: the callback's err result
    hist,           \* per delivery: what this invocation has done so far
    spc,            \* the Shutdown call: position
    forceDone,      \* the Shutdown call: force.Done() is closed
    observed,       \* the Shutdown call: the select case taken
    blocked,        \* the Shutdown call: its select found no case ready and parked
    inflightAtCall, \* the Shutdown call: a handler was executing when it was called
    sinceCall,      \* the Shutdown call: handlers executing ever since it was called
    startedAfterCall, \* the Shutdown call: a delivery entered the callback before force fired
    atDeadline,     \* the Shutdown call: what the deliveries were doing when force fired
    activeAtClose,  \* t.active when close(t.done) ran, NotClosed before
    call,           \* NewSubscription: the topic, the policy passed and the configuration
    npc,            \* NewSubscription: position
    subscribed,     \* what topic.topic.Subscribe was called with, NotSubscribed before
    attempt,        \* backend: the delivery attempt that failed last
    delay           \* backend: the delay applied before the next attempt

vars == <<outstanding, tracing, ctxCancelled, active, armed, onceDone, closes, mu,
          dpc, ret, hist, spc, forceDone, observed, blocked,
          inflightAtCall, sinceCall, startedAfterCall, atDeadline, activeAtClose,
          call, npc, subscribed, attempt, delay>>

trackerVars == <<active, armed, onceDone, closes, mu, activeAtClose>>
deliveryVars == <<dpc, ret, hist>>
shutdownVars == <<spc, forceDone, observed, blocked, inflightAtCall, sinceCall,
                  startedAfterCall, atDeadline>>
managerVars == <<outstanding, tracing>>
registrationVars == <<call, npc, subscribed, attempt, delay>>

\* A Shutdown call has been made and has neither returned nor panicked.
ShutdownInProgress == spc \notin {"idle", "returned", "panicked"}

\* The done channel is closed.
DoneClosed == closes >= 1

\* A callback invocation is between its entry and its return.
InFlight(d) == dpc[d] \in {"decode", "handler", "dec", "declock", "decmark"}

\* What the deliveries are doing now, as atDeadline records it.
DeliveriesNow ==
    IF sinceCall # {} THEN HandlerExecuting
    ELSE IF startedAfterCall THEN NewDeliveryStarted
    ELSE IF \E d \in Deliveries : InFlight(d) THEN OtherInFlight
    ELSE IF DoneClosed THEN AllFinishedDoneClosed
    ELSE AllFinishedDoneOpen

\* Per-invocation record: Inc and Dec calls made, handler calls, request and
\* trace spans opened and closed, the error the trace span was closed with,
\* what the handler did, and whether the decode succeeded.
FreshHist ==
    [incs |-> 0, decs |-> 0, handlerCalls |-> 0,
     reqBegun |-> 0, reqFinished |-> 0,
     spanBegun |-> 0, spanFinished |-> 0, spanErr |-> NoError,
     handler |-> "none", decoded |-> "none"]

(***************************************************************************)
(* Construction.                                                           *)
(***************************************************************************)

\* newOutstandingMessageTracker: counter zero, not armed, done channel open.
newOutstandingMessageTracker ==
    /\ active = 0
    /\ armed = FALSE
    /\ onceDone = FALSE
    /\ closes = 0
    /\ mu = MuFree
    /\ activeAtClose = NotClosed

\* NewManager: a live context; the struct literal sets no outstanding field,
\* so Manager.outstanding is nil.
NewManager ==
    /\ ctxCancelled = FALSE
    /\ outstanding = NilTracker

\* A Manager whose outstanding field holds a tracker built by
\* newOutstandingMessageTracker.
ManagerWithTracker ==
    /\ ctxCancelled = FALSE
    /\ outstanding = TrackerRef

\* The Manager, the tracker and the goroutines before any delivery.
RuntimeInit ==
    /\ NewManager \/ ManagerWithTracker
    /\ newOutstandingMessageTracker
    /\ tracing \in BOOLEAN
    /\ dpc = [d \in Deliveries |-> "idle"]
    /\ ret = [d \in Deliveries |-> NoError]
    /\ hist = [d \in Deliveries |-> FreshHist]
    /\ spc = "idle"
    /\ forceDone = FALSE
    /\ observed = NotObserved
    /\ blocked = FALSE
    /\ inflightAtCall = FALSE
    /\ sinceCall = {}
    /\ startedAfterCall = FALSE
    /\ atDeadline = NotFired

(***************************************************************************)
(* NewSubscription: registration of a subscription on a topic.             *)
(***************************************************************************)

\* utils.WithDefaultValue: the default for the zero value.
WithDefaultValue(value, def) == IF value = 0 THEN def ELSE value

\* if subscriptionCfg.RetryPolicy == nil { ... &RetryPolicy{MaxRetries: 100} }
PolicyOrDefault(p) ==
    IF p = NoPolicy
    THEN [MaxRetries |-> DefaultMaxRetries, MinBackoff |-> 0, MaxBackoff |-> 0]
    ELSE p

\* The two panics on a negative MinBackoff or MaxBackoff.
BoundsNegative(p) == p.MinBackoff < 0 \/ p.MaxBackoff < 0

\* MinBackoff and MaxBackoff with their defaults filled in.
WithDefaultBackoffs(p) ==
    [p EXCEPT !.MinBackoff = WithDefaultValue(@, DefaultMinBackoff),
              !.MaxBackoff = WithDefaultValue(@, DefaultMaxBackoff)]

\* Variant of getSubscriptionConfig: an undeclared name gets the stand-in
\* configuration outside test mode too.
getSubscriptionConfig_NeverFatal(c) ==
    IF c.Testing \/ ~c.declared \/ ~c.staticDeclared THEN StandInConfig
    ELSE DeclaredConfig

\* getSubscriptionConfig: the stand-in in test mode; otherwise the declared
\* configuration, rootLogger.Fatal() when the name is not declared.
getSubscriptionConfig(c) ==
    IF c.Testing THEN StandInConfig
    ELSE IF ~c.declared \/ ~c.staticDeclared THEN "fatal"
    ELSE DeclaredConfig

\* Where NewSubscription ends for call c: a panic, the fatal log, or
\* registered after topic.topic.Subscribe.
NewSubscriptionEnd(c) ==
    IF ~c.topicCreated THEN "panicked"
    ELSE IF BoundsNegative(PolicyOrDefault(c.RetryPolicy)) THEN "panicked"
    ELSE IF getSubscriptionConfig(c) = "fatal" THEN "fatal"
    ELSE "registered"

\* The arguments of topic.topic.Subscribe for call c.
SubscribeArgs(c) ==
    [policy |-> WithDefaultBackoffs(PolicyOrDefault(c.RetryPolicy)),
     subscription |-> getSubscriptionConfig(c)]

\* The calls of NewSubscription considered.
Calls ==
    [topicCreated : BOOLEAN, RetryPolicy : {NoPolicy} \cup Policies,
     Testing : BOOLEAN, declared : BOOLEAN, staticDeclared : BOOLEAN]

\* NewSubscription has not been called yet.
NotYetRegistered ==
    /\ call \in Calls
    /\ npc = "start"
    /\ subscribed = NotSubscribed
    /\ attempt = 0
    /\ delay = 0

\* The subscription the deliveries belong to: a declared name on a created
\* topic, no retry policy passed, NewSubscription has returned.
SubscriptionRegistered ==
    /\ call = [topicCreated |-> TRUE, RetryPolicy |-> NoPolicy, Testing |-> FALSE,
               declared |-> TRUE, staticDeclared |-> TRUE]
    /\ npc = NewSubscriptionEnd(call)
    /\ subscribed = SubscribeArgs(call)
    /\ attempt = 0
    /\ delay = 0

Init == RuntimeInit /\ SubscriptionRegistered

\* NewSubscription(topic, name, subscriptionCfg), from entry to return.
NewSubscription ==
    /\ npc = "start"
    /\ npc' = NewSubscriptionEnd(call)
    /\ subscribed' = IF NewSubscriptionEnd(call) = "registered"
                     THEN SubscribeArgs(call) ELSE NotSubscribed
    /\ UNCHANGED <<call, attempt, delay>>
    /\ UNCHANGED <<trackerVars, deliveryVars, shutdownVars, managerVars, ctxCancelled>>

(***************************************************************************)
(* The backend's backoff policy between delivery attempts.                 *)
(***************************************************************************)

clamp(x, lo, hi) == IF x < lo THEN lo ELSE IF x > hi THEN hi ELSE x

\* Variant of nextDelay: doubling with no ceiling.
nextDelay_NoCeiling(p, n) == p.MinBackoff * 2^(n - 1)

\* nextDelay(attempt) under policy p: doubling from MinBackoff, clamped.
nextDelay(p, n) == clamp(p.MinBackoff * 2^(n - 1), p.MinBackoff, p.MaxBackoff)

\* A delivery attempt fails and the backend schedules the redelivery.
BackendRedelivers ==
    /\ npc = "registered"
    /\ attempt < MaxAttempt
    /\ attempt' = attempt + 1
    /\ delay' = nextDelay(subscribed.policy, attempt + 1)
    /\ UNCHANGED <<call, npc, subscribed>>
    /\ UNCHANGED <<trackerVars, deliveryVars, shutdownVars, managerVars, ctxCancelled>>

RegistrationNext == NewSubscription \/ BackendRedelivers

RegistrationInit == RuntimeInit /\ NotYetRegistered

RegistrationSpec == RegistrationInit /\ [][RegistrationNext]_vars

(***************************************************************************)
(* outstandingMessageTracker.                                              *)
(***************************************************************************)

Min(a, b) == IF a < b THEN a ELSE b

\* Variant of closeOnceRuns: close(t.done) called without the sync.Once.
closeOnceRuns_Always == TRUE

\* sync.Once.Do runs its function only on the first call.
closeOnceRuns == ~onceDone

\* markDone, called when `called` holds: t.closeOnce.Do(func() { close(t.done) }).
\* `closing` says whether close(t.done) executes in this step.
markDoneCloses(called) == called /\ closeOnceRuns

\* close of an already closed channel panics.
markDonePanics(called) == markDoneCloses(called) /\ DoneClosed

markDone(called) ==
    /\ onceDone' = (onceDone \/ markDoneCloses(called))
    /\ closes' = IF markDoneCloses(called) THEN Min(closes + 1, MaxCloses) ELSE closes
    /\ activeAtClose' = IF markDoneCloses(called) /\ ~DoneClosed
                        THEN active ELSE activeAtClose

\* Closing the done channel resolves a select parked on it to its
\* <-mgr.outstanding.Done() case.
WokenByClose(closing) == closing /\ ~DoneClosed /\ spc = "parked"

\* Inc: atomic.AddInt64(&t.active, 1).
Inc == active' = active + 1

\* Dec, first part: val := atomic.AddInt64(&t.active, -1).
DecVal == active - 1

\* Variant of DecBranch: no underflow check, a negative result returns.
DecBranch_NoUnderflowCheck(val) ==
    IF val = 0 THEN "declock" ELSE "returned"

\* Variant of DecBranch: the underflow check written val <= 0.
DecBranch_PanicsAtZero(val) ==
    IF val <= 0 THEN "panicked" ELSE "returned"

\* Dec, the branch taken on val: panic below zero, the critical section at
\* zero, plain return otherwise.
DecBranch(val) ==
    IF val < 0 THEN "panicked"
    ELSE IF val = 0 THEN "declock"
    ELSE "returned"

\* Variant of DecMarks: Dec marks the tracker done whether armed or not.
DecMarks_Unarmed == TRUE

\* Variant of DecMarks: Dec never marks the tracker done.
DecMarks_Never == FALSE

\* Dec, inside the critical section: if t.armed { t.markDone() }.
DecMarks == armed

\* ArmForShutdown, inside the critical section, after t.armed = true:
\* if atomic.LoadInt64(&t.active) == 0 { t.markDone() }.
ArmMarks == active = 0

(***************************************************************************)
(* The delivery callback installed by NewSubscription.                     *)
(***************************************************************************)

\* Variant of panicCatchWrapper: no recover, the panic leaves the wrapper.
panicCatchWrapper_NoRecover(h) == h

\* Variant of panicCatchWrapper: every failure is turned into the Internal
\* error, a returned error included.
panicCatchWrapper_WrapsErrors(h) ==
    IF h = NoError THEN NoError ELSE ErrSubscriberPanicked

\* panicCatchWrapper: the handler's result, a panic recovered into an
\* Internal error.
panicCatchWrapper(h) == IF h = HandlerPanic THEN ErrSubscriberPanicked ELSE h

\* The backend invokes the callback; its first statement is
\* mgr.outstanding.Inc() followed by defer mgr.outstanding.Dec().
\* On a nil tracker &t.active dereferences nil and the panic leaves the
\* callback before the defer is registered.
DeliverInc(d) ==
    /\ dpc[d] \in {"idle", "returned"}
    /\ IF outstanding = NilTracker
       THEN /\ dpc' = [dpc EXCEPT ![d] = "panicked"]
            /\ hist' = [hist EXCEPT ![d] = FreshHist]
            /\ UNCHANGED active
       ELSE /\ Inc
            /\ dpc' = [dpc EXCEPT ![d] = "decode"]
            /\ hist' = [hist EXCEPT ![d] = [FreshHist EXCEPT !.incs = 1]]
    /\ ret' = [ret EXCEPT ![d] = NoError]
    /\ startedAfterCall' = (startedAfterCall \/ (ShutdownInProgress /\ ~forceDone))
    /\ UNCHANGED <<armed, onceDone, closes, mu, activeAtClose>>
    /\ UNCHANGED <<managerVars, registrationVars, ctxCancelled>>
    /\ UNCHANGED <<spc, forceDone, observed, blocked, inflightAtCall, sinceCall, atDeadline>>

\* Variant of DeliverUnmarshalFails: the error branch lacks its return and
\* falls through to the request and the handler.
DeliverUnmarshalFails_FallsThrough(d) ==
    /\ dpc[d] = "decode"
    /\ hist' = [hist EXCEPT ![d].decoded = "failed",
                            ![d].reqBegun = @ + 1,
                            ![d].spanBegun = IF tracing THEN @ + 1 ELSE @,
                            ![d].handlerCalls = @ + 1]
    /\ dpc' = [dpc EXCEPT ![d] = "handler"]
    /\ UNCHANGED <<ret, trackerVars, managerVars, registrationVars,
                   ctxCancelled, shutdownVars>>

\* utils.UnmarshalMessage fails: log, return an Internal error.
DeliverUnmarshalFails(d) ==
    /\ dpc[d] = "decode"
    /\ hist' = [hist EXCEPT ![d].decoded = "failed"]
    /\ ret' = [ret EXCEPT ![d] = ErrUnmarshal]
    /\ dpc' = [dpc EXCEPT ![d] = "dec"]
    /\ UNCHANGED <<trackerVars, managerVars, registrationVars, ctxCancelled, shutdownVars>>

\* utils.UnmarshalMessage succeeds: build the request, BeginRequest, begin the
\* trace span when tracing, and call the handler through panicCatchWrapper.
DeliverCallHandler(d) ==
    /\ dpc[d] = "decode"
    /\ hist' = [hist EXCEPT ![d].decoded = "ok",
                            ![d].reqBegun = @ + 1,
                            ![d].spanBegun = IF tracing THEN @ + 1 ELSE @,
                            ![d].handlerCalls = @ + 1]
    /\ dpc' = [dpc EXCEPT ![d] = "handler"]
    /\ UNCHANGED <<ret, trackerVars, managerVars, registrationVars,
                   ctxCancelled, shutdownVars>>

\* Variant of SpanOutcome: the span is finished with a nil error.
SpanOutcome_Nil(err) == NoError

\* curr.Trace.FinishRequest(req, nil, err): the outcome the span is closed with.
SpanOutcome(err) == err

\* The handler ends (returns or panics); finish the trace span with err,
\* FinishRequest, return err.  The deferred Dec is still to run.
DeliverHandlerEnds(d) ==
    /\ dpc[d] = "handler"
    /\ \E h \in HandlerBehaviours :
        /\ hist' = [hist EXCEPT ![d].handler = h,
                                ![d].spanFinished = IF tracing THEN @ + 1 ELSE @,
                                ![d].spanErr = IF tracing
                                              THEN SpanOutcome(panicCatchWrapper(h))
                                              ELSE @,
                                ![d].reqFinished = @ + 1]
        /\ ret' = [ret EXCEPT ![d] = panicCatchWrapper(h)]
    /\ dpc' = [dpc EXCEPT ![d] = "dec"]
    /\ sinceCall' = sinceCall \ {d}
    /\ UNCHANGED <<trackerVars, managerVars, registrationVars, ctxCancelled>>
    /\ UNCHANGED <<spc, forceDone, observed, blocked, inflightAtCall, startedAfterCall,
                   atDeadline>>

\* The deferred Dec: the atomic add and the branch on its result.
DeliverDecAdd(d) ==
    /\ dpc[d] = "dec"
    /\ active' = DecVal
    /\ hist' = [hist EXCEPT ![d].decs = @ + 1]
    /\ dpc' = [dpc EXCEPT ![d] = DecBranch(DecVal)]
    /\ UNCHANGED <<ret, armed, onceDone, closes, mu, activeAtClose>>
    /\ UNCHANGED <<managerVars, registrationVars, ctxCancelled, shutdownVars>>

\* Dec at zero: t.mu.Lock().
DeliverDecLock(d) ==
    /\ dpc[d] = "declock"
    /\ mu = MuFree
    /\ mu' = HeldByDec(d)
    /\ dpc' = [dpc EXCEPT ![d] = "decmark"]
    /\ UNCHANGED <<ret, hist, active, armed, onceDone, closes, activeAtClose>>
    /\ UNCHANGED <<managerVars, registrationVars, ctxCancelled, shutdownVars>>

\* Dec at zero, holding the mutex: markDone if armed, unlock (deferred),
\* and the callback returns.
DeliverDecMark(d) ==
    /\ dpc[d] = "decmark"
    /\ mu = HeldByDec(d)
    /\ markDone(DecMarks)
    /\ mu' = MuFree
    /\ dpc' = [dpc EXCEPT ![d] =
                 IF markDonePanics(DecMarks) THEN "panicked" ELSE "returned"]
    /\ spc' = IF WokenByClose(markDoneCloses(DecMarks)) THEN "returned" ELSE spc
    /\ observed' = IF WokenByClose(markDoneCloses(DecMarks))
                   THEN DrainComplete ELSE observed
    /\ UNCHANGED <<ret, hist, active, armed, forceDone, blocked, inflightAtCall,
                   sinceCall, startedAfterCall, atDeadline>>
    /\ UNCHANGED <<managerVars, registrationVars, ctxCancelled>>

(***************************************************************************)
(* Manager.Shutdown, called by the goroutine that shuts the process down.  *)
(* It may call again after a call has returned.                            *)
(***************************************************************************)

\* Variant of ShutdownCancel: Shutdown without the mgr.cancelCtx() call.
ShutdownCancel_NoCancel ==
    /\ spc \in {"idle", "returned"}
    /\ UNCHANGED ctxCancelled
    /\ spc' = "arm"
    /\ forceDone' = FALSE
    /\ observed' = NotObserved
    /\ blocked' = FALSE
    /\ inflightAtCall' = \E d \in Deliveries : dpc[d] = "handler"
    /\ sinceCall' = {d \in Deliveries : dpc[d] = "handler"}
    /\ startedAfterCall' = FALSE
    /\ atDeadline' = NotFired
    /\ UNCHANGED <<trackerVars, deliveryVars, managerVars, registrationVars>>

\* Shutdown(force) is called, with a force context of its own:
\* mgr.cancelCtx().
ShutdownCancel ==
    /\ spc \in {"idle", "returned"}
    /\ ctxCancelled' = TRUE
    /\ spc' = "arm"
    /\ forceDone' = FALSE
    /\ observed' = NotObserved
    /\ blocked' = FALSE
    /\ inflightAtCall' = \E d \in Deliveries : dpc[d] = "handler"
    /\ sinceCall' = {d \in Deliveries : dpc[d] = "handler"}
    /\ startedAfterCall' = FALSE
    /\ atDeadline' = NotFired
    /\ UNCHANGED <<trackerVars, deliveryVars, managerVars, registrationVars>>

\* mgr.outstanding.ArmForShutdown(): t.mu.Lock().  On a nil tracker
\* t.mu dereferences nil and Shutdown panics.
ShutdownArmLock ==
    /\ spc = "arm"
    /\ IF outstanding = NilTracker
       THEN /\ spc' = "panicked"
            /\ UNCHANGED mu
       ELSE /\ mu = MuFree
            /\ mu' = HeldByArm
            /\ spc' = "armbody"
    /\ UNCHANGED <<active, armed, onceDone, closes, activeAtClose>>
    /\ UNCHANGED <<deliveryVars, managerVars, registrationVars,
                   ctxCancelled, forceDone, observed,
                   blocked, inflightAtCall, sinceCall, startedAfterCall, atDeadline>>

\* ArmForShutdown holding the mutex: t.armed = true, markDone if the counter
\* is zero, unlock (deferred).
ShutdownArmBody ==
    /\ spc = "armbody"
    /\ mu = HeldByArm
    /\ armed' = TRUE
    /\ markDone(ArmMarks)
    /\ mu' = MuFree
    /\ spc' = IF markDonePanics(ArmMarks) THEN "panicked" ELSE "select"
    /\ UNCHANGED <<active, deliveryVars, managerVars, registrationVars,
                   ctxCancelled, forceDone,
                   observed, blocked, inflightAtCall, sinceCall, startedAfterCall,
                   atDeadline>>

\* The cases of the select that can proceed now.
ReadyCases ==
    {c \in {DrainComplete, DeadlineHit} :
        \/ c = DrainComplete /\ DoneClosed
        \/ c = DeadlineHit /\ forceDone}

\* select { case <-mgr.outstanding.Done(): case <-force.Done(): }
\* With a case ready one of the ready cases is taken; with none the goroutine
\* parks until a channel is closed.
ShutdownSelect ==
    /\ spc = "select"
    /\ IF ReadyCases = {}
       THEN /\ spc' = "parked"
            /\ blocked' = TRUE
            /\ UNCHANGED observed
       ELSE /\ observed' \in ReadyCases
            /\ spc' = "returned"
            /\ UNCHANGED blocked
    /\ UNCHANGED <<trackerVars, deliveryVars, managerVars, registrationVars,
                   ctxCancelled, forceDone,
                   inflightAtCall, sinceCall, startedAfterCall, atDeadline>>

\* The force context of the Shutdown call in progress is done (its deadline
\* passed or it was cancelled, possibly before the call); a select parked on
\* it is resolved to that case.
ForceFires ==
    /\ ShutdownInProgress
    /\ ~forceDone
    /\ forceDone' = TRUE
    /\ IF spc = "parked"
       THEN /\ spc' = "returned"
            /\ observed' = DeadlineHit
       ELSE UNCHANGED <<spc, observed>>
    /\ atDeadline' = DeliveriesNow
    /\ UNCHANGED <<trackerVars, deliveryVars, managerVars, registrationVars,
                   ctxCancelled, blocked,
                   inflightAtCall, sinceCall, startedAfterCall>>

Next ==
    \/ \E d \in Deliveries : DeliverInc(d)
    \/ \E d \in Deliveries : DeliverUnmarshalFails(d)
    \/ \E d \in Deliveries : DeliverCallHandler(d)
    \/ \E d \in Deliveries : DeliverHandlerEnds(d)
    \/ \E d \in Deliveries : DeliverDecAdd(d)
    \/ \E d \in Deliveries : DeliverDecLock(d)
    \/ \E d \in Deliveries : DeliverDecMark(d)
    \/ ShutdownCancel
    \/ ShutdownArmLock
    \/ ShutdownArmBody
    \/ ShutdownSelect
    \/ ForceFires

Spec == Init /\ [][Next]_vars

(***************************************************************************)
(* The tracker called directly: goroutines that call Inc, Dec and          *)
(* ArmForShutdown in any order, a Dec without its Inc included, next to    *)
(* the goroutine that calls Shutdown.                                      *)
(***************************************************************************)

\* A goroutine calls t.Inc(): the atomic add, and the call has returned.
CallInc(d) ==
    /\ dpc[d] \in {"idle", "returned"}
    /\ active < MaxActive
    /\ Inc
    /\ UNCHANGED <<armed, onceDone, closes, mu, activeAtClose>>
    /\ UNCHANGED <<deliveryVars, managerVars, registrationVars, ctxCancelled, shutdownVars>>

\* A goroutine calls t.Dec(), whether or not it called Inc before.
CallDec(d) ==
    /\ dpc[d] \in {"idle", "returned"}
    /\ dpc' = [dpc EXCEPT ![d] = "dec"]
    /\ hist' = [hist EXCEPT ![d] = FreshHist]
    /\ UNCHANGED <<ret, trackerVars, managerVars, registrationVars,
                   ctxCancelled, shutdownVars>>

\* A goroutine calls t.ArmForShutdown().
CallArm(d) ==
    /\ dpc[d] \in {"idle", "returned"}
    /\ dpc' = [dpc EXCEPT ![d] = "armlock"]
    /\ UNCHANGED <<ret, hist, trackerVars, managerVars, registrationVars,
                   ctxCancelled, shutdownVars>>

\* ArmForShutdown of a direct caller: t.mu.Lock().
CallArmLock(d) ==
    /\ dpc[d] = "armlock"
    /\ mu = MuFree
    /\ mu' = HeldByCallerArm(d)
    /\ dpc' = [dpc EXCEPT ![d] = "armbody"]
    /\ UNCHANGED <<ret, hist, active, armed, onceDone, closes, activeAtClose>>
    /\ UNCHANGED <<managerVars, registrationVars, ctxCancelled, shutdownVars>>

\* ArmForShutdown of a direct caller, holding the mutex: t.armed = true,
\* markDone if the counter is zero, unlock (deferred).
CallArmBody(d) ==
    /\ dpc[d] = "armbody"
    /\ mu = HeldByCallerArm(d)
    /\ armed' = TRUE
    /\ markDone(ArmMarks)
    /\ mu' = MuFree
    /\ dpc' = [dpc EXCEPT ![d] =
                 IF markDonePanics(ArmMarks) THEN "panicked" ELSE "returned"]
    /\ spc' = IF WokenByClose(markDoneCloses(ArmMarks)) THEN "returned" ELSE spc
    /\ observed' = IF WokenByClose(markDoneCloses(ArmMarks))
                   THEN DrainComplete ELSE observed
    /\ UNCHANGED <<ret, hist, active, forceDone, blocked, inflightAtCall,
                   sinceCall, startedAfterCall, atDeadline>>
    /\ UNCHANGED <<managerVars, registrationVars, ctxCancelled>>

TrackerInit == Init /\ ManagerWithTracker

TrackerNext ==
    \/ \E d \in Deliveries : CallInc(d)
    \/ \E d \in Deliveries : CallDec(d)
    \/ \E d \in Deliveries : CallArm(d)
    \/ \E d \in Deliveries : CallArmLock(d)
    \/ \E d \in Deliveries : CallArmBody(d)
    \/ \E d \in Deliveries : DeliverDecAdd(d)
    \/ \E d \in Deliveries : DeliverDecLock(d)
    \/ \E d \in Deliveries : DeliverDecMark(d)
    \/ ShutdownCancel
    \/ ShutdownArmLock
    \/ ShutdownArmBody
    \/ ShutdownSelect
    \/ ForceFires

TrackerSpec == TrackerInit /\ [][TrackerNext]_vars

TypeOK ==
    /\ outstanding \in {NilTracker, TrackerRef}
    /\ tracing \in BOOLEAN
    /\ ctxCancelled \in BOOLEAN
    /\ active \in -1..NumDeliveries
    /\ armed \in BOOLEAN
    /\ onceDone \in BOOLEAN
    /\ closes \in 0..MaxCloses
    /\ ret \in [Deliveries -> Errors]
    /\ observed \in {NotObserved, DrainComplete, DeadlineHit}
    /\ blocked \in BOOLEAN
    /\ inflightAtCall \in BOOLEAN
    /\ sinceCall \subseteq Deliveries
    /\ startedAfterCall \in BOOLEAN

(***************************************************************************)
(* Properties.                                                             *)
(***************************************************************************)

Returned(d) == dpc[d] = "returned"

\* The invocation has run Inc and has not yet run the atomic add of Dec.
Counted(d) == dpc[d] \in {"decode", "handler", "dec"}

\* A Dec call has done its atomic add and has not returned yet.
DecPartWay == \E d \in Deliveries : dpc[d] \in {"declock", "decmark"}

\* No callback invocation is between its entry and its return.
AllFinished == \A d \in Deliveries : ~InFlight(d)

\* C1: the done channel is closed only at a moment when the outstanding
\* counter is zero, so that drain-complete means every delivery that
\* incremented before the close has finished.
C1_ClosedOnlyAtZero == activeAtClose \in {NotClosed, 0}

\* C2: no missed wake-up: once ArmForShutdown has returned, the counter is zero
\* and no Dec is part-way through, the completion signal has fired.
C2_NoMissedWakeup == (armed /\ active = 0 /\ ~DecPartWay) => DoneClosed

\* C2 witness: the tracker was armed while a delivery was counted, and the Dec
\* that brought the counter to zero has fired the signal.
C2_Witness ==
    /\ armed /\ active = 0 /\ ~DecPartWay /\ DoneClosed
    /\ inflightAtCall
    /\ \E d \in Deliveries : Returned(d) /\ hist[d].decs = 1

\* C3: when every Inc has been matched by its Dec the counter is zero, and
\* the completion signal of an armed tracker has then fired exactly once; it
\* never fires twice.
C3_BalancedFiresOnce ==
    /\ closes <= 1
    /\ (AllFinished /\ ~DecPartWay) => active = 0
    /\ (AllFinished /\ armed) => closes = 1

\* C3 witness: every delivery slot has completed an Inc/Dec pair, the tracker
\* is armed, ArmForShutdown has just returned, and done was closed once.
C3_Witness ==
    /\ \A d \in Deliveries : Returned(d) /\ hist[d].incs = 1 /\ hist[d].decs = 1
    /\ armed /\ active = 0 /\ closes = 1
    /\ spc = "select" /\ DoneClosed /\ onceDone

\* C4: every callback invocation increments the tracker once on entry and
\* decrements it once on every exit path, so the counter equals the number of
\* invocations that have incremented and not yet decremented and is never
\* negative.
C4_CounterTracksDeliveries ==
    /\ \A d \in Deliveries :
        /\ dpc[d] # "idle" => hist[d].incs = 1
        /\ dpc[d] \in {"returned", "panicked"} => hist[d].decs = 1
    /\ active = Cardinality({d \in Deliveries : Counted(d)})
    /\ active >= 0

\* C5: when the handler panics, no panic leaves the callback: the callback
\* returns the Internal "subscriber panicked" error and the counter is
\* decremented exactly once for that delivery.
C5_HandlerPanicContained ==
    \A d \in Deliveries :
        hist[d].handler = HandlerPanic =>
            /\ dpc[d] # "panicked"
            /\ ret[d] = ErrSubscriberPanicked
            /\ IsInternal(ret[d])
            /\ hist[d].decs <= 1
            /\ Returned(d) => hist[d].decs = 1

\* C5 witness: a callback whose handler panicked has returned.
C5_Witness ==
    \E d \in Deliveries :
        /\ Returned(d)
        /\ hist[d].handler = HandlerPanic
        /\ ret[d] = ErrSubscriberPanicked
        /\ hist[d].decs = 1

\* C6: when decoding fails the callback returns an Internal failure without
\* calling the handler and without opening a request or trace span, and no
\* panic leaves the callback.
C6_DecodeFailureSkipsHandler ==
    \A d \in Deliveries :
        hist[d].decoded = "failed" =>
            /\ dpc[d] \in {"dec", "declock", "decmark", "returned"}
            /\ ret[d] = ErrUnmarshal
            /\ IsInternal(ret[d])
            /\ hist[d].handlerCalls = 0
            /\ hist[d].reqBegun = 0
            /\ hist[d].spanBegun = 0

\* C6 witness: a callback whose decode failed has returned, tracing enabled.
C6_Witness ==
    \E d \in Deliveries :
        /\ Returned(d)
        /\ hist[d].decoded = "failed"
        /\ ret[d] = ErrUnmarshal
        /\ tracing

\* C7: when the message decodes and the handler does not panic, the callback
\* returns exactly what the handler returned: its error, or nil.
C7_HandlerResultVerbatim ==
    \A d \in Deliveries :
        (Returned(d) /\ hist[d].decoded = "ok" /\ hist[d].handler # HandlerPanic) =>
            /\ hist[d].handler \in {NoError} \cup HandlerErrors
            /\ ret[d] = hist[d].handler

\* C7 witness: one callback returned its handler's error and another
\* returned nil.
C7_Witness ==
    /\ \E d \in Deliveries :
        Returned(d) /\ hist[d].handler \in HandlerErrors /\ ret[d] = hist[d].handler
    /\ \E d \in Deliveries :
        Returned(d) /\ hist[d].handler = NoError /\ ret[d] = NoError

\* C8: Shutdown returns only after one of its two signals has fired, it does
\* return once one has fired, and from the call on the context is cancelled
\* and, once ArmForShutdown is past, the tracker is armed.
C8_ShutdownWaitsAndLatches ==
    /\ spc = "returned" => (DoneClosed \/ forceDone)
    /\ spc = "returned" => observed # NotObserved
    /\ spc # "idle" => ctxCancelled
    /\ spc \notin {"idle", "arm", "armbody"} => armed
    /\ spc # "panicked"
    /\ spc = "parked" => (~DoneClosed /\ ~forceDone)

\* C9 as claimed: if Shutdown is called while a handler is mid-execution, no
\* delivery starts afterwards and all have finished when the deadline fires, the completion
\* signal has fired before the deadline and Shutdown observes drain-complete.
C9_DrainBeatsDeadline ==
    (inflightAtCall /\ atDeadline \in {AllFinishedDoneOpen, AllFinishedDoneClosed}) =>
        /\ atDeadline = AllFinishedDoneClosed
        /\ spc = "returned" => observed = DrainComplete

\* C9 amended: if Shutdown has armed the tracker and is blocked in its select
\* when the last in-flight delivery finishes, the completion signal fires in
\* that step and Shutdown returns having observed drain-complete.
C9_ParkedShutdownObservesDrain ==
    [][(spc = "parked" /\ AllFinished')
        => (DoneClosed' /\ spc' = "returned" /\ observed' = DrainComplete)]_vars

\* C9 witness: Shutdown was called with a delivery mid-execution, parked in
\* its select, and returned through the drain-complete case with the
\* deadline never fired.
C9_Witness ==
    /\ spc = "returned" /\ observed = DrainComplete
    /\ blocked /\ inflightAtCall /\ ~forceDone /\ ~startedAfterCall
    /\ AllFinished /\ active = 0

\* C10 as claimed: if the deadline fires while a handler that was executing
\* when Shutdown was called is still executing,
\* Shutdown returns having observed the deadline, and the late decrement
\* does not panic and the counter is back at zero when all have finished.
C10_DeadlineObserved ==
    /\ (atDeadline = HandlerExecuting /\ spc = "returned") => observed = DeadlineHit
    /\ \A d \in Deliveries : dpc[d] = "panicked" => hist[d].decs = 0
    /\ (AllFinished /\ ~DecPartWay) => active = 0

\* C10 amended: if the deadline fires while Shutdown is blocked in its
\* select, Shutdown returns having observed the deadline and the step
\* touches no delivery and not the counter; no decrement of a delivery
\* panics, and the counter is zero once all deliveries have finished.
C10_ParkedShutdownObservesDeadline ==
    /\ [][(spc = "parked" /\ ~forceDone /\ forceDone')
            => /\ spc' = "returned" /\ observed' = DeadlineHit
               /\ UNCHANGED <<dpc, ret, hist, active>>]_vars
    /\ [](\A d \in Deliveries : dpc[d] = "panicked" => hist[d].decs = 0)
    /\ []((AllFinished /\ ~DecPartWay) => active = 0)

\* C10 witness: the deadline fired while a handler was executing and
\* Shutdown was parked; Shutdown returned on the deadline, and afterwards
\* every delivery finished and the counter is zero.
C10_Witness ==
    /\ spc = "returned" /\ observed = DeadlineHit /\ blocked
    /\ atDeadline = HandlerExecuting
    /\ AllFinished /\ active = 0
    /\ \E d \in Deliveries : Returned(d) /\ hist[d].decs = 1

\* C11 as claimed: no Dec leaves the counter negative for others: while the
\* counter is negative no operation reads it, changes it, arms the tracker
\* or fires the completion signal.
C11_NegativeNeverObserved ==
    [][active < 0 => UNCHANGED <<active, armed, closes>>]_vars

\* C11 amended: a Dec whose atomic add finds the counter at zero or below
\* panics in that step without taking the mutex, arming or firing the
\* completion signal, and a negative counter always has a panicked Dec
\* behind it; the decrement itself stays applied.
C11_UnmatchedDecPanics ==
    /\ [][\A d \in Deliveries :
            (dpc[d] = "dec" /\ dpc'[d] # "dec" /\ active <= 0)
                => /\ dpc'[d] = "panicked"
                   /\ active' = active - 1
                   /\ UNCHANGED <<armed, onceDone, closes, mu>>]_vars
    /\ [](active < 0 => \E d \in Deliveries : dpc[d] = "panicked")

\* C11 witness: a Dec called on an armed tracker with the counter at zero
\* has panicked, and the counter is left at -1.
C11_Witness ==
    /\ \E d \in Deliveries : dpc[d] = "panicked" /\ hist[d].decs = 1
    /\ active = -1
    /\ armed /\ closes = 1 /\ mu = MuFree

\* C12: the Manager owns a constructed tracker, so neither Shutdown nor a
\* delivery callback fails on a missing one.
C12_NewManagerOwnsTracker ==
    /\ outstanding = TrackerRef
    /\ spc # "panicked"
    /\ \A d \in Deliveries : dpc[d] # "panicked"

\* The call carries a configuration error: a topic not created through
\* NewTopic, a negative bound, or an undeclared name outside test mode.
ConfigurationError(c) ==
    \/ ~c.topicCreated
    \/ c.RetryPolicy # NoPolicy /\ c.RetryPolicy.MinBackoff < 0
    \/ c.RetryPolicy # NoPolicy /\ c.RetryPolicy.MaxBackoff < 0
    \/ ~c.Testing /\ ~(c.declared /\ c.staticDeclared)

\* C13: a registration with a configuration error ends in a panic or the
\* fatal log with Subscribe never called, one without registers, and in test
\* mode an undeclared name registers with the stand-in configuration.
C13_ConfigurationErrorsAreFatal ==
    npc # "start" =>
        /\ ConfigurationError(call) =>
                (npc \in {"panicked", "fatal"} /\ subscribed = NotSubscribed)
        /\ ~ConfigurationError(call) =>
                (npc = "registered" /\ subscribed # NotSubscribed)
        /\ (npc = "registered" /\ call.Testing) =>
                subscribed.subscription = StandInConfig
        /\ (npc = "registered" /\ ~call.Testing) =>
                subscribed.subscription = DeclaredConfig

\* C13 witness: outside test mode a name the topic does not declare ended
\* the registration in the fatal log, Subscribe not called.
C13_Witness ==
    /\ npc = "fatal" /\ subscribed = NotSubscribed
    /\ call.topicCreated /\ ~call.Testing /\ ~call.declared
    /\ call.RetryPolicy = NoPolicy

\* C14: the policy a successful registration hands to the backend has
\* 0 <= MinBackoff <= MaxBackoff.
C14_BackoffBoundsOrdered ==
    npc = "registered" =>
        /\ 0 <= subscribed.policy.MinBackoff
        /\ subscribed.policy.MinBackoff <= subscribed.policy.MaxBackoff

\* The field of the policy passed is unset: no policy, or the zero value.
Unset(c, field) == c.RetryPolicy = NoPolicy \/ c.RetryPolicy[field] = 0

\* C15: in the policy handed to the backend every field the caller left
\* unset carries its default (10s, 10min, 100) and every field the caller
\* set is unchanged.
C15_UnsetFieldsDefaulted ==
    npc = "registered" =>
        /\ subscribed.policy.MinBackoff =
              IF Unset(call, "MinBackoff") THEN 10 ELSE call.RetryPolicy.MinBackoff
        /\ subscribed.policy.MaxBackoff =
              IF Unset(call, "MaxBackoff") THEN 600 ELSE call.RetryPolicy.MaxBackoff
        /\ subscribed.policy.MaxRetries =
              IF Unset(call, "MaxRetries") THEN 100 ELSE call.RetryPolicy.MaxRetries

\* C16: under a policy with MinBackoff <= MaxBackoff the delay after attempt
\* n is MinBackoff * 2^(n-1) capped at MaxBackoff, so it lies in
\* [MinBackoff, MaxBackoff]; with 1s and 8s the delays are 1s, 2s, 4s.
C16_DelayClamped ==
    (npc = "registered" /\ attempt >= 1
        /\ subscribed.policy.MinBackoff <= subscribed.policy.MaxBackoff) =>
        /\ subscribed.policy.MinBackoff <= delay
        /\ delay <= subscribed.policy.MaxBackoff
        /\ delay = IF subscribed.policy.MinBackoff * 2^(attempt - 1)
                        > subscribed.policy.MaxBackoff
                   THEN subscribed.policy.MaxBackoff
                   ELSE subscribed.policy.MinBackoff * 2^(attempt - 1)
        /\ (subscribed.policy.MinBackoff = 1 /\ subscribed.policy.MaxBackoff = 8
                /\ attempt <= 3) => delay = <<1, 2, 4>>[attempt]

\* C16 witness: under MinBackoff 1s, MaxBackoff 8s the doubling has reached
\* the ceiling: the delay after the fifth attempt is 8s.
C16_Witness ==
    /\ npc = "registered" /\ attempt = 5 /\ delay = 8
    /\ subscribed.policy.MinBackoff = 1 /\ subscribed.policy.MaxBackoff = 8

\* C17: Shutdown cancels the context, then arms, then waits: the tracker is
\* never armed and done never closed while the context is uncancelled, and
\* Shutdown is past its cancel when arming and armed when it waits.
C17_CancelThenArmThenWait ==
    /\ armed => ctxCancelled
    /\ DoneClosed => ctxCancelled
    /\ spc \in {"arm", "armbody"} => ctxCancelled
    /\ spc \in {"select", "parked"} => (armed /\ ctxCancelled)
    /\ (spc = "returned" /\ observed # NotObserved) => (armed /\ ctxCancelled)

\* C17 witness: Shutdown has cancelled, armed with a delivery in flight and
\* is waiting in its select.
C17_Witness ==
    /\ spc = "parked" /\ ctxCancelled /\ armed /\ ~DoneClosed
    /\ \E d \in Deliveries : dpc[d] = "handler"

\* C18: a trace span opened for a delivery is closed exactly once before
\* the callback returns, with the value the callback returns, and the
\* tracker is decremented only after the span is closed.
C18_SpanClosedOnceWithOutcome ==
    \A d \in Deliveries :
        /\ hist[d].spanBegun <= 1
        /\ hist[d].spanFinished <= hist[d].spanBegun
        /\ (hist[d].spanBegun = 1 /\ dpc[d] # "handler") =>
                (hist[d].spanFinished = 1 /\ hist[d].spanErr = ret[d])
        /\ (hist[d].spanBegun = 1 /\ hist[d].decs >= 1) => hist[d].spanFinished = 1
        /\ (hist[d].spanBegun = 1 /\ dpc[d] = "handler") => hist[d].decs = 0

\* C18 witness: with tracing on, one callback whose handler panicked and one
\* whose handler returned an error have returned, each span closed once with
\* the callback's result.
C18_Witness ==
    /\ tracing
    /\ \E d \in Deliveries :
        /\ Returned(d) /\ hist[d].handler = HandlerPanic
        /\ hist[d].spanFinished = 1 /\ hist[d].spanErr = ErrSubscriberPanicked
    /\ \E d \in Deliveries :
        /\ Returned(d) /\ hist[d].handler \in HandlerErrors
        /\ hist[d].spanFinished = 1 /\ hist[d].spanErr = hist[d].handler

\* C19: the done channel is closed only on an armed tracker.
C19_DoneImpliesArmed == DoneClosed => armed

\* C19 witness: every delivery had finished its handler before Shutdown was
\* called, none started afterwards, and done was closed by the arming.
C19_Witness ==
    /\ DoneClosed /\ armed /\ activeAtClose = 0
    /\ ~inflightAtCall /\ ~startedAfterCall /\ spc = "select"
    /\ \A d \in Deliveries : Returned(d) /\ hist[d].decs = 1

\* C20: armed, the sync.Once and the closed done channel are latches; done
\* is closed at most once, no ArmForShutdown panics on a double close, and a
\* Shutdown that finds done closed does not block.
C20_LatchesCloseOnce ==
    /\ [][/\ armed => armed'
          /\ onceDone => onceDone'
          /\ DoneClosed => DoneClosed'
          /\ closes' \in {closes, closes + 1}
          /\ \A d \in Deliveries :
                dpc[d] \in {"armbody", "decmark"} => dpc'[d] # "panicked"]_vars
    /\ [](closes <= 1)
    /\ [](spc # "panicked")
    /\ [](spc = "parked" => ~DoneClosed)

\* C20 witness: done was closed once, a later Inc has raised the counter,
\* and two further ArmForShutdown calls are under way, one holding the mutex
\* and the one of Shutdown waiting for it.
C20_Witness ==
    /\ DoneClosed /\ closes = 1 /\ armed /\ active >= 1
    /\ spc = "arm"
    /\ \E d \in Deliveries : dpc[d] = "armbody" /\ mu = HeldByCallerArm(d)

====
